---- MODULE Spec2Model ----
(***************************************************************************)
(* Model of the CAMS web-products generator: the master script             *)
(* create_cams_definitions.py (main / process_package), the builders it    *)
(* calls, the name deriver generate_short_names, the stand-alone style and  *)
(* layer generators create_forecast_styles.py and create_forecast_layers.py *)
(* and apply_defaults of yaml_processor.py.                                *)
(*                                                                         *)
(* Strings the code takes apart (backend identifiers, short names) are     *)
(* sequences of one-character strings; strings the code only composes      *)
(* (resource names, f-strings) are sequences whose fixed parts are kept as *)
(* one element each.                                                       *)
(***************************************************************************)
EXTENDS Integers, Sequences, FiniteSets, TLC

\* ------------------------------------------------------------------------
\* Bounds of the model
\* ------------------------------------------------------------------------
\* longest body of a backend identifier drawn for the name deriver
MaxLen == 4
\* largest number of variable references in a package configuration document
MaxRefs == 3

\* ------------------------------------------------------------------------
\* Strings
\* ------------------------------------------------------------------------
\* all sequences over S of length at most n
SeqsUpTo(S, n) == UNION {[1..k -> S] : k \in 0..n}

Last(s) == s[Len(s)]

\* s[from..] of a sequence
DropFirst(s, n) == SubSeq(s, n + 1, Len(s))

\* s[:-n] of a sequence
DropLast(s, n) == SubSeq(s, 1, Len(s) - n)

StartsWith(s, p) == Len(s) >= Len(p) /\ SubSeq(s, 1, Len(p)) = p

EndsWith(s, p) == Len(s) >= Len(p) /\ SubSeq(s, Len(s) - Len(p) + 1, Len(s)) = p

\* str.lower() on one character
LowerChar(c) ==
    CASE c = "C" -> "c" [] c = "U" -> "u" [] c = "S" -> "s" [] c = "I" -> "i"
      [] c = "N" -> "n" [] c = "O" -> "o" [] c = "P" -> "p" [] c = "M" -> "m"
      [] c = "X" -> "x"
      [] OTHER -> c

\* str.lower()
Lower(s) == [i \in 1..Len(s) |-> LowerChar(s[i])]

\* str.replace(old, new, 1): only the leftmost occurrence is replaced
RECURSIVE ReplaceFirst(_, _, _)
ReplaceFirst(s, old, new) ==
    IF Len(s) < Len(old) THEN s
    ELSE IF StartsWith(s, old)
         THEN new \o DropFirst(s, Len(old))
         ELSE <<Head(s)>> \o ReplaceFirst(Tail(s), old, new)

\* str.replace(old, new): leftmost non-overlapping occurrences, left to right
RECURSIVE Replace(_, _, _)
Replace(s, old, new) ==
    IF Len(s) < Len(old) THEN s
    ELSE IF StartsWith(s, old)
         THEN new \o Replace(DropFirst(s, Len(old)), old, new)
         ELSE <<Head(s)>> \o Replace(Tail(s), old, new)

\* the positions where sub occurs in s
Occurrences(s, sub) ==
    {i \in 1..(Len(s) - Len(sub) + 1) : SubSeq(s, i, i + Len(sub) - 1) = sub}

\* s.split(sep)[-1]: what follows the last separator found from the left
RECURSIVE AfterLast(_, _)
AfterLast(s, sep) ==
    IF Occurrences(s, sep) = {} THEN s
    ELSE LET first == CHOOSE i \in Occurrences(s, sep) :
                          \A j \in Occurrences(s, sep) : i <= j
         IN  AfterLast(DropFirst(s, first + Len(sep) - 1), sep)

PREFIX == <<"C", "_">>
SUFFIX == <<"_", "U", "S", "I">>
NEWLINE == "\n"

\* re.sub(r"_USI$", "", s): the substitution without the prefix alternative
ReSubSuffixOnly(s) ==
    IF EndsWith(s, SUFFIX)
    THEN DropLast(s, 4)
    ELSE IF EndsWith(s, SUFFIX \o <<NEWLINE>>)
         THEN DropLast(s, 5) \o <<NEWLINE>>
         ELSE s

\* re.sub(r"^C_|_USI$", "", s): '^C_' can only match at position 0; '_USI$'
\* matches where the string ends, or just before a newline that ends it, and
\* only on characters that the first match has not consumed.
ReSubPrefixSuffix(s) ==
    LET afterPrefix == IF StartsWith(s, PREFIX) THEN DropFirst(s, 2) ELSE s
    IN  IF EndsWith(afterPrefix, SUFFIX)
        THEN DropLast(afterPrefix, 4)
        ELSE IF EndsWith(afterPrefix, SUFFIX \o <<NEWLINE>>)
             THEN DropLast(afterPrefix, 5) \o <<NEWLINE>>
             ELSE afterPrefix

PM25 == <<"p", "m", "2", "5">>
PM2P5 == <<"p", "m", "2", "p", "5">>

\* short_name of generate_short_names
ShortName(backend_api_name) ==
    Replace(Lower(ReSubPrefixSuffix(backend_api_name)), PM25, PM2P5)

\* generate_short_names with the lowercasing left out
generate_short_names_nolower(backend_api_name) ==
    LET short_name == Replace(ReSubPrefixSuffix(backend_api_name), PM25, PM2P5)
    IN  <<short_name, Replace(short_name, <<"_">>, <<" ">>)>>

\* generate_short_names: (short_name, short_name_with_spaces)
generate_short_names(backend_api_name) ==
    LET short_name == ShortName(backend_api_name)
    IN  <<short_name, Replace(short_name, <<"_">>, <<" ">>)>>

\* ------------------------------------------------------------------------
\* Input documents
\* ------------------------------------------------------------------------
\* frontend names are kept as the words between their underscores
NITROGEN_DIOXIDE == <<"nitrogen", "dioxide">>
PARTICULATE_2P5 == <<"particulate", "matter", "2p5um">>
NITROGEN_DIOXIDE_RAW == <<"nitrogen", "dioxide", "raw">>
UNLISTED == <<"unlisted", "gas">>

\* names a package configuration may refer to; UNLISTED has no registry record
FrontendNames == {NITROGEN_DIOXIDE, PARTICULATE_2P5, NITROGEN_DIOXIDE_RAW, UNLISTED}

\* the fetched variable/model document (regional_fc_definitions.yaml): two
\* pollutants and a hidden record whose malformed backend identifier derives
\* the short name of the first
VarConfigDocument ==
    [variable |-> <<
        [frontend_api_name |-> NITROGEN_DIOXIDE,
         backend_api_name |-> <<"C", "_", "N", "O", "2", "_", "U", "S", "I">>,
         hidden |-> FALSE,
         var_table_units |-> <<"n", "e", "t", "C", "D", "F", ":", "u", "g", "/", "m", "3">>,
         grib_representations |-> <<[constituentType |-> "17"]>>],
        [frontend_api_name |-> PARTICULATE_2P5,
         backend_api_name |-> <<"C", "_", "P", "M", "2", "5", "_", "U", "S", "I">>,
         hidden |-> FALSE,
         var_table_units |->
             <<"u", "g", "/", "m", "<", "s", "u", "p", ">", "3", "<", "/", "s", "u", "p", ">">>,
         grib_representations |-> <<[constituentType |-> "40009"]>>],
        [frontend_api_name |-> NITROGEN_DIOXIDE_RAW,
         backend_api_name |-> <<"N", "O", "2">>,
         hidden |-> TRUE,
         var_table_units |-> <<"u", "g", "/", "m", "3">>,
         grib_representations |-> <<[constituentType |-> "17"]>>] >>,
     model |-> <<
        [frontend_api_name |-> "ensemble", form_label |-> "Ensemble median",
         grib_representations |-> <<[centre |-> "85", subCentre |-> "2"]>>],
        [frontend_api_name |-> "chimere", form_label |-> "CHIMERE",
         grib_representations |-> <<[centre |-> "85", subCentre |-> "200"]>>] >>]

\* the fetched style document (plot_settings.yaml), keyed by variant then by
\* frontend name
StyleConfigDocument ==
    [web |->
        [contour_levels |-> <<
            [parameter |-> NITROGEN_DIOXIDE, levels |-> <<0, 50, 100>>],
            [parameter |-> PARTICULATE_2P5, levels |-> <<0, 10, 75>>],
            [parameter |-> NITROGEN_DIOXIDE_RAW, levels |-> <<0, 40>>] >>,
         colours |-> <<
            [parameter |-> NITROGEN_DIOXIDE, cols |-> <<"white", "red">>],
            [parameter |-> PARTICULATE_2P5, cols |-> <<"white", "purple">>],
            [parameter |-> NITROGEN_DIOXIDE_RAW, cols |-> <<"white", "blue">>] >>]]

\* the four JSON skeletons of ./etc
TemplateDocuments ==
    [package |-> [name |-> <<>>, title |-> <<>>, description |-> <<>>,
                  category |-> "atmosphere"],
     product |-> [name |-> <<>>, layers |-> <<>>,
                  variables |-> <<[name |-> "projection", values |-> <<"classical_europe">>]>>],
     layer |-> [name |-> <<>>, styles |-> <<>>,
                variables |-> <<>>,
                retrieve |-> [data |-> [class |-> "mc", constituentType |-> "key_0",
                                        expver |-> "0001"]]],
     style |-> [name |-> <<>>,
                data |-> [contour |-> [contour |-> "off", contour_level_list |-> <<>>]]]]

\* packages of ./etc/cams_packages.yaml, in document order
PackageNames == <<"cams_air_quality", "cams_pollutants">>

\* places of a package that list variables: its single products, then its groups
Slots == <<"single", "main_pollutants", "other_pollutants">>

\* the variables listed as single products; process_package has the loop over
\* them commented out and never reads which they are
SingleNames == {NITROGEN_DIOXIDE}

\* one variable reference of the package document
RefUniverse ==
    {r \in [pkg : 1..Len(PackageNames), slot : 1..Len(Slots), var : FrontendNames] :
        r.slot = 1 => r.var \in SingleNames}

KeyOf(r) == (r.pkg - 1) * Len(Slots) + r.slot

\* references listed in document order, the groups of a package named in the
\* order of Slots
Canonical(refs) ==
    /\ \A i \in 1..(Len(refs) - 1) : KeyOf(refs[i]) <= KeyOf(refs[i + 1])
    /\ \A i \in 1..Len(refs) :
          refs[i].slot > 2 =>
              \E j \in 1..Len(refs) : refs[j].pkg = refs[i].pkg /\ refs[j].slot = refs[i].slot - 1

RefLists == {refs \in SeqsUpTo(RefUniverse, MaxRefs) : Canonical(refs)}

VarsAt(refs, p, s) ==
    LET here == SelectSeq(refs, LAMBDA r : r.pkg = p /\ r.slot = s)
    IN  [i \in 1..Len(here) |-> here[i].var]

RECURSIVE GroupsFrom(_, _, _)
GroupsFrom(refs, p, s) ==
    IF s > Len(Slots) THEN <<>>
    ELSE (IF VarsAt(refs, p, s) = <<>> THEN <<>>
          ELSE <<[name |-> Slots[s], title |-> Slots[s], variables |-> VarsAt(refs, p, s)]>>)
         \o GroupsFrom(refs, p, s + 1)

\* the package document with the given variable references
PackageConfig(refs) ==
    [p \in 1..Len(PackageNames) |->
        [name |-> PackageNames[p],
         title |-> <<"title of ", PackageNames[p]>>,
         base_title |-> <<"CAMS ", PackageNames[p]>>,
         description |-> <<"description of ", PackageNames[p]>>,
         products |-> [single |-> VarsAt(refs, p, 1),
                       grouped |-> GroupsFrom(refs, p, 2)]]]

\* ------------------------------------------------------------------------
\* Variable registry
\* ------------------------------------------------------------------------
\* main: {item["frontend_api_name"]: item for item in var_config[key]}; the
\* mapping keeps the order of the document
Rekey(document) == [variable |-> document.variable, model |-> document.model]

\* var_name in var_config["variable"]
Registered(var_config, var_name) ==
    \E i \in 1..Len(var_config.variable) :
        var_config.variable[i].frontend_api_name = var_name

\* var_config["variable"].get(var_name), where it is not None
VarData(var_config, var_name) ==
    var_config.variable[CHOOSE i \in 1..Len(var_config.variable) :
        var_config.variable[i].frontend_api_name = var_name]

\* next((v for v in var_config["variable"].values()
\*       if v["backend_api_name"] == backend), None) is not None
HasBackend(var_config, backend) ==
    \E i \in 1..Len(var_config.variable) :
        var_config.variable[i].backend_api_name = backend

\* the first record with that backend identifier
VarDataByBackend(var_config, backend) ==
    LET hits == {i \in 1..Len(var_config.variable) :
                    var_config.variable[i].backend_api_name = backend}
    IN  var_config.variable[CHOOSE i \in hits : \A j \in hits : i <= j]

\* ------------------------------------------------------------------------
\* Name composition
\* ------------------------------------------------------------------------
\* the layer name joined with hyphens
LayerNameDashed(short_name) ==
    <<"composition-europe-">> \o short_name \o <<"-forecast-surface">>

\* f"composition_europe_{short_name}_forecast_surface"
LayerName(short_name) == <<"composition_europe_">> \o short_name \o <<"_forecast_surface">>

\* the style name with the variant in front of the short name
StyleNameVariantFirst(short_name, type_) ==
    <<"sh_", type_, "_">> \o short_name \o <<"_surface_concentration">>

\* f"sh_{short_name}_{type_}_surface_concentration"
StyleName(short_name, type_) ==
    <<"sh_">> \o short_name \o <<"_", type_, "_surface_concentration">>

\* f"europe-{variable_or_group}-forecast"
ProductName(key) == <<"europe-", key, "-forecast">>

\* word[:-2] of the last word of a particulate-matter name
ChopUnit(word) ==
    CASE word = "2p5um" -> "2p5" [] word = "10um" -> "10" [] OTHER -> word

\* "".join(words): the words without a separator between them
JoinWordsUnseparated(words, sep) == words

\* sep.join(words), the separator an element of its own
RECURSIVE JoinWords(_, _)
JoinWords(words, sep) ==
    IF Len(words) <= 1 THEN words
    ELSE <<Head(words), sep>> \o JoinWords(Tail(words), sep)

\* f"PM{var_name.split('_')[-1][:-2]}" if var_name.startswith("particulate")
\* else var_name.replace("_", " ")
LongName(var_name) ==
    IF Head(var_name) = "particulate"
    THEN <<"PM", ChopUnit(Last(var_name))>>
    ELSE JoinWords(var_name, " ")

\* dict.update: the keys of upd are set, the other keys of rec are kept
Update(rec, upd) ==
    [k \in DOMAIN rec \cup DOMAIN upd |-> IF k \in DOMAIN upd THEN upd[k] ELSE rec[k]]

\* ------------------------------------------------------------------------
\* Builders
\* ------------------------------------------------------------------------
\* copy.deepcopy(template) with the copy left out: the builder's writes land on
\* the template object itself
TemplateAliased(template, built) == built

\* the template object after a builder ran on copy.deepcopy(template): every
\* write of the builder went to the copy
TemplateAfterBuild(template, built) == template

\* create_package: name, title and description set on a copy of the template
create_package(package_name, package_data, template) ==
    Update(template, [name |-> <<package_name>>,
                      title |-> package_data.base_title,
                      description |-> package_data.description])

AQI_PARAMS == {<<"nitrogen", "dioxide">>, <<"ozone">>,
               <<"particulate", "matter", "2p5um">>,
               <<"particulate", "matter", "10um">>, <<"sulphur", "dioxide">>}

\* the style list with the index style for every variable
create_style_list_all_aqi(var_name, short_name) ==
    <<StyleName(short_name, "web"), StyleName(short_name, "aqi")>>
    \o << <<"sh_Reds_surface_concentration">>, <<"sh_Purples_surface_concentration">>,
          <<"sh_Greens_surface_concentration">>, <<"sh_Oranges_surface_concentration">> >>

\* create_style_list
create_style_list(var_name, short_name) ==
    <<StyleName(short_name, "web")>>
    \o (IF var_name \in AQI_PARAMS THEN <<StyleName(short_name, "aqi")>> ELSE <<>>)
    \o << <<"sh_Reds_surface_concentration">>, <<"sh_Purples_surface_concentration">>,
          <<"sh_Greens_surface_concentration">>, <<"sh_Oranges_surface_concentration">> >>

\* f"{cc['centre']}_{cc['subCentre']}" of a model's first encoding record
ModelKey(model) ==
    <<model.grib_representations[1].centre, "_", model.grib_representations[1].subCentre>>

\* sorted(config["model"]): the model names in ascending order
ModelRank(name) == CASE name = "chimere" -> 1 [] name = "ensemble" -> 2 [] OTHER -> 3

RECURSIVE SortedModels(_)
SortedModels(models) ==
    IF models = <<>> THEN <<>>
    ELSE LET least == CHOOSE i \in 1..Len(models) :
                          \A j \in 1..Len(models) :
                              ModelRank(models[i].frontend_api_name)
                                  <= ModelRank(models[j].frontend_api_name)
         IN  <<models[least]>>
             \o SortedModels([k \in 1..(Len(models) - 1) |->
                                 IF k < least THEN models[k] ELSE models[k + 1]])

\* create_model_variable of the layer generator
create_model_variable(config) ==
    LET sorted == SortedModels(config.model)
    IN  [name |-> "originating_centre", title |-> "Model", type |-> "choice",
         menu |-> "true",
         values |-> [i \in 1..Len(sorted) |-> ModelKey(sorted[i])]]

MARKER == <<"n", "e", "t", "C", "D", "F", ":">>
SUP == <<"<", "s", "u", "p", ">">>
SUP_END == <<"<", "/", "s", "u", "p", ">">>

\* unit of create_layer, line 64: the text after the last "netCDF:" where the
\* string has one, then .replace("<sup>", "") and then .replace("</sup>", "")
UnitOf(var_table_units) ==
    LET text == IF Occurrences(var_table_units, MARKER) # {}
                THEN AfterLast(var_table_units, MARKER)
                ELSE var_table_units
    IN  Replace(Replace(text, SUP, <<>>), SUP_END, <<>>)

\* create_layer(var_name, var_data, template, config) of the layer generator
create_layer(var_name, var_data, template, config) ==
    LET names == generate_short_names(var_data.backend_api_name)
        short_name == names[1]
        long_name == LongName(var_name)
        unit == UnitOf(var_data.var_table_units)
        updated == Update(template,
            [description |-> <<"European ">> \o long_name
                                 \o <<" ground- and upper-level forecast">>,
             keywords |-> <<"deterministic, air quality, ">> \o names[2] \o <<", ">>
                              \o long_name \o <<", surface concentrations">>,
             name |-> LayerName(short_name),
             title |-> <<"Ground- and upper-level ">> \o long_name
                           \o <<" (provided by CAMS)">>,
             style |-> StyleName(short_name, "web"),
             styles |-> create_style_list(var_name, short_name),
             units |-> [data |-> unit, display |-> unit]])
        constituent_type == Last(var_data.grib_representations).constituentType
    IN  [updated EXCEPT
            !.retrieve.data = Update(@, [constituentType |-> <<"key_", constituent_type>>,
                                         expver |-> "5001"]),
            !.variables = @ \o <<create_model_variable(config),
                [name |-> "stream", title |-> "Statistics type", type |-> "choice",
                 menu |-> "true", values |-> <<"oper", "dame", "damx">>],
                [name |-> "type", title |-> "Data type", type |-> "choice",
                 menu |-> "true", values |-> <<"fc", "an">>],
                [name |-> "level", title |-> "Height level", type |-> "choice",
                 menu |-> "true",
                 values |-> <<"key_0", "key_100", "key_1000", "key_3000", "key_5000">>]>>]

\* style_config[type_]["contour_levels"] has the key parameter
HasLevels(style_config, type_, parameter) ==
    \E i \in 1..Len(style_config[type_].contour_levels) :
        style_config[type_].contour_levels[i].parameter = parameter

\* style_config[type_]["contour_levels"][parameter]
LevelsOf(style_config, type_, parameter) ==
    style_config[type_].contour_levels[
        CHOOSE i \in 1..Len(style_config[type_].contour_levels) :
            style_config[type_].contour_levels[i].parameter = parameter].levels

\* parameter in style_config[type_]["colours"]
HasColours(style_config, type_, parameter) ==
    \E i \in 1..Len(style_config[type_].colours) :
        style_config[type_].colours[i].parameter = parameter

\* style_config[type_]["colours"][parameter]
ColoursOf(style_config, type_, parameter) ==
    style_config[type_].colours[
        CHOOSE i \in 1..Len(style_config[type_].colours) :
            style_config[type_].colours[i].parameter = parameter].cols

COMMON == <<"common">>

\* the colour list with the variable's own list preferred to the shared one
ShadeColoursOwnFirst(style_config, type_, parameter) ==
    IF HasColours(style_config, type_, parameter)
    THEN JoinWords(ColoursOf(style_config, type_, parameter), "/")
    ELSE JoinWords(ColoursOf(style_config, type_, COMMON), "/")

\* contour_shade_colour_list of create_style, lines 33-38
ShadeColours(style_config, type_, parameter) ==
    IF HasColours(style_config, type_, COMMON)
    THEN JoinWords(ColoursOf(style_config, type_, COMMON), "/")
    ELSE JoinWords(ColoursOf(style_config, type_, parameter), "/")

\* create_style(parameter, backend_api_name, style_config, template, type_) of
\* the style generator
create_style(parameter, backend_api_name, style_config, template, type_) ==
    LET short_name == generate_short_names(backend_api_name)[1]
        contour_list == LevelsOf(style_config, type_, parameter)
        contour_level_list ==
            JoinWords([i \in 1..Len(contour_list) |-> ToString(contour_list[i])], "/")
        contour_min == contour_list[1]
        contour_max == Last(contour_list)
        contour_shade_colour_list == ShadeColours(style_config, type_, parameter)
        title == <<"Contour shade (Range: ", ToString(contour_min), " / ",
                   ToString(contour_max), ", Multihue ">>
                 \o short_name \o <<" ", type_, ")">>
        updated == Update(template,
            [title |-> title,
             name |-> StyleName(short_name, type_),
             description |-> <<"Method: contour shade\r\nLevel range : ",
                               ToString(contour_min), " to ", ToString(contour_max),
                               "\r\nColour    : Multihue ">>
                             \o short_name \o <<" ", type_>>])
    IN  [updated EXCEPT
            !.data.contour = Update(@,
                [contour_legend_text |-> title,
                 contour_level_list |-> contour_level_list,
                 contour_shade_colour_list |-> contour_shade_colour_list,
                 contour_shade_min_level |-> contour_min])]

\* str.title() of one word of a frontend name
TitleWord(word) ==
    CASE word = "nitrogen" -> "Nitrogen" [] word = "dioxide" -> "Dioxide"
      [] word = "raw" -> "Raw" [] word = "particulate" -> "Particulate"
      [] word = "matter" -> "Matter" [] word = "2p5um" -> "2P5Um"
      [] word = "unlisted" -> "Unlisted" [] word = "gas" -> "Gas"
      [] OTHER -> word

\* the selector with its labels in the opposite order to its values
create_layer_name_variable_reversed(var_list, var_config, suffix) ==
    [name |-> "layer_name", title |-> "Parameter", type |-> "choice",
     labels |-> [i \in 1..Len(var_list) |->
                    LET var_name == var_list[Len(var_list) + 1 - i]
                    IN  JoinWords([k \in 1..Len(var_name) |-> TitleWord(var_name[k])], " ")],
     values |-> [i \in 1..Len(var_list) |->
                    LayerName(generate_short_names(
                        VarData(var_config, var_list[i]).backend_api_name)[1]) \o suffix]]

\* create_layer_name_variable: one label and one layer name per variable
create_layer_name_variable(var_list, var_config, suffix) ==
    [name |-> "layer_name", title |-> "Parameter", type |-> "choice",
     labels |-> [i \in 1..Len(var_list) |->
                    JoinWords([k \in 1..Len(var_list[i]) |-> TitleWord(var_list[i][k])], " ")],
     values |-> [i \in 1..Len(var_list) |->
                    LayerName(generate_short_names(
                        VarData(var_config, var_list[i]).backend_api_name)[1]) \o suffix]]

\* create_models_variable: the ensemble first, the other models in name order
create_models_variable(var_config) ==
    LET ensemble == SelectSeq(var_config.model, LAMBDA m : m.frontend_api_name = "ensemble")
        others == SelectSeq(SortedModels(var_config.model),
                            LAMBDA m : m.frontend_api_name # "ensemble")
        listed == <<ensemble[1]>> \o others
    IN  [name |-> "originating_centre", title |-> "Model", type |-> "choice",
         values |-> [i \in 1..Len(listed) |-> ModelKey(listed[i])],
         labels |-> [i \in 1..Len(listed) |-> listed[i].form_label]]

\* every variable of the group has a registry record
GroupResolves(group_data, var_config) ==
    \A i \in 1..Len(group_data.variables) : Registered(var_config, group_data.variables[i])

\* the four-entry layer list of a product whose data layer is that of short_name
ProductLayers(short_name, type_) ==
    << [class |-> "data", layer_type |-> "eccharts", name |-> LayerName(short_name),
        style |-> StyleName(short_name, type_)],
       [class |-> "data", layer_type |-> "eccharts", name |-> <<"foreground">>,
        style |-> <<"medium_res_foreground">>],
       [class |-> "data", layer_type |-> "eccharts", name |-> <<"grid">>],
       [class |-> "data", layer_type |-> "eccharts", name |-> <<"boundaries">>,
        style |-> <<"black_boundaries">>] >>

\* create_grouped_product(group_name, group_data, template, var_config, type_),
\* where GroupResolves holds: the product of a group, its layer and style
\* references those of the group's first listed variable
create_grouped_product(group_name, group_data, template, var_config, type_) ==
    LET first == VarData(var_config, group_data.variables[1])
        short_name == generate_short_names(first.backend_api_name)[1]
        updated == Update(template,
            [name |-> ProductName(group_name),
             title |-> <<group_data.title>>,
             layers |-> ProductLayers(short_name, type_)])
    IN  [updated EXCEPT
            !.variables = @ \o <<create_layer_name_variable(group_data.variables,
                                                           var_config, <<>>),
                                 create_models_variable(var_config)>>]

\* ------------------------------------------------------------------------
\* Files
\* ------------------------------------------------------------------------
PACKAGEDIR == "package"
PRODUCTDIR == "product"
LAYERDIR == "layer"
STYLEDIR == "style"
OUTPUTDIR == "."

\* the directories main clears, in the order of its loop
OutputDirs == <<LAYERDIR, STYLEDIR, PRODUCTDIR, PACKAGEDIR>>

\* a file: its directory under OUTPUTDIR, its sub-directory, its name
Path(dir, sub, name) == [dir |-> dir, sub |-> sub, name |-> name]

InDirs(path, dirs) == \E i \in 1..Len(dirs) : path.dir = dirs[i]

\* open(outfile, "a"): the document is added after what the file holds
WriteAppend(files, outfile, document) ==
    [q \in DOMAIN files \cup {outfile} |->
        IF q = outfile
        THEN (IF outfile \in DOMAIN files THEN files[outfile] ELSE <<>>) \o <<document>>
        ELSE files[q]]

\* write_layer: open(outfile, "w") and json.dump; the file then holds that one
\* document
write_layer(files, outfile, document) ==
    [q \in DOMAIN files \cup {outfile} |-> IF q = outfile THEN <<document>> ELSE files[q]]

\* the loop of main without shutil.rmtree: directories are only created
KeepDirectories(files, dirs) == files

\* shutil.rmtree(dir_) and mkdir for each directory of dirs
ClearDirectories(files, dirs) ==
    [q \in {f \in DOMAIN files : ~InDirs(f, dirs)} |-> files[q]]

NoFiles == [q \in {} |-> <<>>]

\* what an earlier run with another configuration left behind: one file in
\* each output directory
StaleFiles ==
    [q \in {Path(OutputDirs[i], IF OutputDirs[i] = PRODUCTDIR THEN <<"old_package", "_", "web">> ELSE <<>>,
                 <<"left_over", ".json">>) : i \in 1..Len(OutputDirs)}
        |-> << [name |-> <<"left_over">>] >>]

PriorContents == {NoFiles, StaleFiles}

\* ------------------------------------------------------------------------
\* State
\* ------------------------------------------------------------------------
VARIABLES
    document,           \* the variable references of ./etc/cams_packages.yaml
    configs,            \* main: the three loaded configuration documents
    templates,          \* main: the four loaded templates
    fs,                 \* the files under OUTPUTDIR: path -> documents it holds
    before,             \* the files under OUTPUTDIR when this run of main began
    pc,                 \* where the running script stands
    run,                \* 1 in the first run of main, 2 in the run after it
    pi,                 \* main: index of the package being processed
    gi,                 \* process_package: index of the next group
    li,                 \* process_package: index of the next required layer
    si,                 \* process_package: index of the next required style
    required_layers,    \* process_package: layer name -> backend identifier
    required_styles,    \* process_package: style name -> backend identifier
    var_name,           \* process_package: the loop variable of line 113
    package_summary,    \* process_package: the summary being filled
    package_summaries,  \* main: the summaries of the packages processed
    writes,             \* the files written by this run, in order
    error,              \* the exception raised in this run, if any
    warnings,           \* style generator: the names it warned about
    ident,              \* name deriver: the backend identifier passed in
    names               \* name deriver: the pair returned

vars == <<document, configs, templates, fs, before, pc, run, pi, gi, li, si,
          required_layers, required_styles, var_name, package_summary,
          package_summaries, writes, error, warnings, ident, names>>

\* the locals of process_package
locals == <<gi, li, si, required_layers, required_styles, var_name, package_summary>>

\* the variables of the other scripts
others == <<warnings, ident, names>>

TYPE == "web"

NoConfigs ==
    [package_config |-> <<>>,
     var_config |-> [variable |-> <<>>, model |-> <<>>],
     style_config |-> [web |-> [contour_levels |-> <<>>, colours |-> <<>>]]]

NoTemplates == [package |-> <<>>, product |-> <<>>, layer |-> <<>>, style |-> <<>>]

NoSummary == [title |-> <<>>, products |-> <<>>]

NoError == [raised |-> FALSE, package |-> 0, writes |-> 0]

\* a fresh process: nothing loaded, no locals bound
FreshProcess ==
    /\ configs = NoConfigs
    /\ templates = NoTemplates
    /\ pi = 1 /\ gi = 1 /\ li = 1 /\ si = 1
    /\ required_layers = <<>>
    /\ required_styles = <<>>
    /\ var_name = <<>>
    /\ package_summary = NoSummary
    /\ package_summaries = <<>>
    /\ writes = <<>>
    /\ error = NoError

Init ==
    /\ document \in RefLists
    /\ fs \in PriorContents
    /\ before = fs
    /\ pc = "load"
    /\ run = 1
    /\ FreshProcess
    /\ warnings = <<>>
    /\ ident = <<>>
    /\ names = <<>>

\* ------------------------------------------------------------------------
\* process_package: tracking of required layers and styles
\* ------------------------------------------------------------------------
\* the layer name with the variant appended
TrackedLayerNameVariant(short_name, type_) ==
    <<"composition_europe_">> \o short_name \o <<"_forecast_surface", "_", type_>>

\* layer_name of line 120
TrackedLayerName(short_name, type_) ==
    <<"composition_europe_">> \o short_name \o <<"_forecast_surface">>

\* the style name without the variant
TrackedStyleNameNoVariant(short_name, type_) ==
    <<"sh_">> \o short_name \o <<"_surface_concentration">>

\* style_name of line 121
TrackedStyleName(short_name, type_) ==
    <<"sh_">> \o short_name \o <<"_", type_, "_surface_concentration">>

Keys(required) == {required[i].name : i \in 1..Len(required)}

\* an entry added for every variable, whether or not the name is present
RecordEvery(required, name, backend) ==
    Append(required, [name |-> name, backend |-> backend])

\* an entry that stores the identifier in lower case
RecordLowered(required, name, backend) ==
    IF name \in Keys(required) THEN required
    ELSE Append(required, [name |-> name, backend |-> Lower(backend)])

\* if name not in required: required[name] = backend
RecordOnce(required, name, backend) ==
    IF name \in Keys(required) THEN required
    ELSE Append(required, [name |-> name, backend |-> backend])

\* the loop of lines 113-131 over the variables of one group; raised is set
\* where line 117 raises
RECURSIVE TrackVariables(_, _, _, _)
TrackVariables(variables, var_config, type_, acc) ==
    IF variables = <<>> THEN acc
    ELSE IF ~Registered(var_config, Head(variables))
         THEN [acc EXCEPT !.raised = TRUE, !.var_name = Head(variables)]
         ELSE LET var_data == VarData(var_config, Head(variables))
                  short_name == generate_short_names(var_data.backend_api_name)[1]
                  layer_name == TrackedLayerName(short_name, type_)
                  style_name == TrackedStyleName(short_name, type_)
              IN  TrackVariables(Tail(variables), var_config, type_,
                    [acc EXCEPT
                        !.var_name = Head(variables),
                        !.required_layers = RecordOnce(@, layer_name, var_data.backend_api_name),
                        !.group_layers = IF layer_name \in Keys(acc.required_layers)
                                         THEN @ ELSE Append(@, layer_name),
                        !.required_styles = RecordOnce(@, style_name, var_data.backend_api_name),
                        !.group_styles = IF style_name \in Keys(acc.required_styles)
                                         THEN @ ELSE Append(@, style_name)])

\* an exception caught in the loop of main, which goes on with its packages
CaughtError(position) == "package"

\* where control stands after a raise: neither process_package nor main has
\* a handler, so the exception ends the process
UncaughtError(position) == "aborted"

\* ------------------------------------------------------------------------
\* main and process_package
\* ------------------------------------------------------------------------
Written(path) == [path |-> path, package |-> pi]

\* main, lines 169-185: the configurations and the templates are loaded
Load ==
    /\ pc = "load"
    /\ configs' = [package_config |-> PackageConfig(document),
                   var_config |-> Rekey(VarConfigDocument),
                   style_config |-> StyleConfigDocument]
    /\ templates' = TemplateDocuments
    /\ pc' = "clean"
    /\ UNCHANGED <<document, fs, before, run, pi, locals, package_summaries, writes,
                   error, others>>

\* main, lines 187-194: the output directories are removed and created again
Clean ==
    /\ pc = "clean"
    /\ fs' = ClearDirectories(fs, OutputDirs)
    /\ package_summaries' = <<>>
    /\ pi' = 1
    /\ pc' = "package"
    /\ UNCHANGED <<document, configs, templates, before, run, locals, writes, error,
                   others>>

\* process_package, lines 46-66: the package file is written and the locals
\* are initialised
StartPackage ==
    /\ pc = "package"
    /\ pi <= Len(configs.package_config)
    /\ LET package_data == configs.package_config[pi]
           new_package == create_package(package_data.name, package_data,
                                         templates.package)
           outfile == Path(PACKAGEDIR, <<>>, <<package_data.name, ".json">>)
       IN  /\ fs' = write_layer(fs, outfile, new_package)
           /\ writes' = Append(writes, Written(outfile))
           /\ templates' = [templates EXCEPT
                               !.package = TemplateAfterBuild(@, new_package)]
           /\ package_summary' = [title |-> package_data.title, products |-> <<>>]
    /\ required_layers' = <<>>
    /\ required_styles' = <<>>
    /\ var_name' = <<>>
    /\ gi' = 1
    /\ pc' = "groups"
    /\ UNCHANGED <<document, configs, before, run, pi, li, si, package_summaries,
                   error, others>>

\* process_package, lines 103-138: one pass of the loop over the groups
ProcessGroup ==
    /\ pc = "groups"
    /\ gi <= Len(configs.package_config[pi].products.grouped)
    /\ LET package_data == configs.package_config[pi]
           group_data == package_data.products.grouped[gi]
           package_dir == <<package_data.name, "_", TYPE>>
       IN  IF ~GroupResolves(group_data, configs.var_config)
           THEN \* the product builder raises
                /\ pc' = UncaughtError(pc)
                /\ error' = [raised |-> TRUE, package |-> pi, writes |-> Len(writes)]
                /\ UNCHANGED <<fs, writes, templates, locals>>
           ELSE LET new_product == create_grouped_product(group_data.name, group_data,
                                       templates.product, configs.var_config, TYPE)
                    outfile == Path(PRODUCTDIR, package_dir,
                                    new_product.name \o <<"-", TYPE, ".json">>)
                    tracked == TrackVariables(group_data.variables, configs.var_config, TYPE,
                                   [required_layers |-> required_layers,
                                    required_styles |-> required_styles,
                                    group_layers |-> <<>>, group_styles |-> <<>>,
                                    var_name |-> var_name, raised |-> FALSE])
                IN  /\ fs' = write_layer(fs, outfile, new_product)
                    /\ writes' = Append(writes, Written(outfile))
                    /\ templates' = [templates EXCEPT
                                        !.product = TemplateAfterBuild(@, new_product)]
                    /\ var_name' = tracked.var_name
                    /\ IF tracked.raised
                       THEN /\ pc' = UncaughtError(pc)
                            /\ error' = [raised |-> TRUE, package |-> pi,
                                         writes |-> Len(writes) + 1]
                            /\ UNCHANGED <<gi, required_layers, required_styles,
                                           package_summary>>
                       ELSE /\ pc' = "groups"
                            /\ gi' = gi + 1
                            /\ required_layers' = tracked.required_layers
                            /\ required_styles' = tracked.required_styles
                            /\ package_summary' =
                                  [package_summary EXCEPT !.products = Append(@,
                                      [name |-> new_product.name, type |-> "grouped",
                                       layers |-> tracked.group_layers,
                                       styles |-> tracked.group_styles])]
                            /\ UNCHANGED error
                    /\ UNCHANGED <<li, si>>
    /\ UNCHANGED <<document, configs, before, run, pi, package_summaries, others>>

\* the layers phase entered from inside the loop over the groups
GroupsLeftEarly(next_group, grouped) == TRUE

\* the for loop of line 103 has visited every group
GroupsExhausted(next_group, grouped) == next_group > Len(grouped)

\* process_package, line 141: the loop over the groups is over
EnterLayers ==
    /\ pc = "groups"
    /\ GroupsExhausted(gi, configs.package_config[pi].products.grouped)
    /\ li' = 1
    /\ pc' = "layers"
    /\ UNCHANGED <<document, configs, templates, fs, before, run, pi, gi, si,
                   required_layers, required_styles, var_name, package_summary,
                   package_summaries, writes, error, others>>

\* process_package, lines 142-151: one pass of the loop over required_layers
BuildLayer ==
    /\ pc = "layers"
    /\ li <= Len(required_layers)
    /\ LET layer_name == required_layers[li].name
           backend == required_layers[li].backend
       IN  IF ~HasBackend(configs.var_config, backend)
           THEN /\ pc' = UncaughtError(pc)
                /\ error' = [raised |-> TRUE, package |-> pi, writes |-> Len(writes)]
                /\ UNCHANGED <<fs, writes, templates, li>>
           ELSE LET var_data == VarDataByBackend(configs.var_config, backend)
                    new_layer == create_layer(var_name, var_data, templates.layer,
                                              configs.var_config)
                    outfile == Path(LAYERDIR, <<>>, layer_name \o <<".json">>)
                IN  /\ fs' = write_layer(fs, outfile, new_layer)
                    /\ writes' = Append(writes, Written(outfile))
                    /\ templates' = [templates EXCEPT
                                        !.layer = TemplateAfterBuild(@, new_layer)]
                    /\ li' = li + 1
                    /\ pc' = "layers"
                    /\ UNCHANGED error
    /\ UNCHANGED <<document, configs, before, run, pi, gi, si, required_layers,
                   required_styles, var_name, package_summary, package_summaries,
                   others>>

\* process_package, line 154: the loop over required_layers is over
EnterStyles ==
    /\ pc = "layers"
    /\ li > Len(required_layers)
    /\ si' = 1
    /\ pc' = "styles"
    /\ UNCHANGED <<document, configs, templates, fs, before, run, pi, gi, li,
                   required_layers, required_styles, var_name, package_summary,
                   package_summaries, writes, error, others>>

\* create_style finds the contour levels and the colours of the parameter
StyleResolves(style_config, type_, parameter) ==
    /\ HasLevels(style_config, type_, parameter)
    /\ HasColours(style_config, type_, COMMON) \/ HasColours(style_config, type_, parameter)

\* process_package, lines 155-164: one pass of the loop over required_styles
BuildStyle ==
    /\ pc = "styles"
    /\ si <= Len(required_styles)
    /\ LET style_name == required_styles[si].name
           backend == required_styles[si].backend
       IN  IF ~HasBackend(configs.var_config, backend)
              \/ ~StyleResolves(configs.style_config, TYPE, var_name)
           THEN /\ pc' = UncaughtError(pc)
                /\ error' = [raised |-> TRUE, package |-> pi, writes |-> Len(writes)]
                /\ UNCHANGED <<fs, writes, templates, si>>
           ELSE LET var_data == VarDataByBackend(configs.var_config, backend)
                    new_style == create_style(var_name, var_data.backend_api_name,
                                              configs.style_config, templates.style, TYPE)
                    outfile == Path(STYLEDIR, <<>>, style_name \o <<".json">>)
                IN  /\ fs' = write_layer(fs, outfile, new_style)
                    /\ writes' = Append(writes, Written(outfile))
                    /\ templates' = [templates EXCEPT
                                        !.style = TemplateAfterBuild(@, new_style)]
                    /\ si' = si + 1
                    /\ pc' = "styles"
                    /\ UNCHANGED error
    /\ UNCHANGED <<document, configs, before, run, pi, gi, li, required_layers,
                   required_styles, var_name, package_summary, package_summaries,
                   others>>

\* process_package, line 166, and main, line 198: the summary is returned and
\* stored under the package's name
ReturnPackage ==
    /\ pc = "styles"
    /\ si > Len(required_styles)
    /\ package_summaries' = Append(package_summaries,
           [package |-> configs.package_config[pi].name, summary |-> package_summary])
    /\ pi' = pi + 1
    /\ pc' = "package"
    /\ UNCHANGED <<document, configs, templates, fs, before, run, locals, writes,
                   error, others>>

SummaryFile == Path(OUTPUTDIR, <<>>, <<"creation_summary", ".json">>)

\* main, line 201: create_summary writes the report of all packages
EmitSummary ==
    /\ pc = "package"
    /\ pi > Len(configs.package_config)
    /\ fs' = write_layer(fs, SummaryFile, package_summaries)
    /\ writes' = Append(writes, [path |-> SummaryFile, package |-> 0])
    /\ pc' = "done"
    /\ UNCHANGED <<document, configs, templates, before, run, pi, locals,
                   package_summaries, error, others>>

\* main is run once more, as a new process, on the same documents
Rerun ==
    /\ pc \in {"done", "aborted"}
    /\ run = 1
    /\ run' = 2
    /\ before' = fs
    /\ pc' = "load"
    /\ configs' = NoConfigs
    /\ templates' = NoTemplates
    /\ pi' = 1 /\ gi' = 1 /\ li' = 1 /\ si' = 1
    /\ required_layers' = <<>>
    /\ required_styles' = <<>>
    /\ var_name' = <<>>
    /\ package_summary' = NoSummary
    /\ package_summaries' = <<>>
    /\ writes' = <<>>
    /\ error' = NoError
    /\ UNCHANGED <<document, fs, others>>

Next ==
    \/ Load
    \/ Clean
    \/ StartPackage
    \/ ProcessGroup
    \/ EnterLayers
    \/ BuildLayer
    \/ EnterStyles
    \/ BuildStyle
    \/ ReturnPackage
    \/ EmitSummary
    \/ Rerun

Spec == Init /\ [][Next]_vars

\* ------------------------------------------------------------------------
\* The name deriver on its own
\* ------------------------------------------------------------------------
\* characters of an identifier's body
BodyChars == {"P", "m", "2", "5", "_"}

\* what an identifier may start and end with: the pattern's prefix and suffix,
\* pieces of them, and the suffix twice or followed by a newline
Prefixes == {<<>>, PREFIX, <<"C">>, PREFIX \o PREFIX}
Suffixes == {<<>>, SUFFIX, <<"U", "S", "I">>, SUFFIX \o <<NEWLINE>>, SUFFIX \o SUFFIX}

\* the backend identifiers of the variable document
KnownIdents ==
    {VarConfigDocument.variable[i].backend_api_name :
        i \in 1..Len(VarConfigDocument.variable)}

\* pieces of identifiers that carry the pollutant code more than once
Pieces == {<<>>, <<"P", "M", "2", "5">>, PM25, <<"p", "m">>, <<"2", "5">>, <<"_">>}

Idents ==
    KnownIdents
    \cup {p \o b \o x : p \in Prefixes, b \in SeqsUpTo(BodyChars, MaxLen), x \in Suffixes}
    \cup {p \o a \o b \o c : p \in {<<>>, PREFIX}, a \in Pieces, b \in Pieces, c \in Pieces}

\* the state of the scripts that are not running
Idle ==
    /\ fs = NoFiles
    /\ before = NoFiles
    /\ run = 1
    /\ FreshProcess
    /\ warnings = <<>>

InitNames ==
    /\ ident \in Idents
    /\ names = <<>>
    /\ document = <<>>
    /\ pc = "names"
    /\ Idle

\* generate_short_names(ident) is called
GenerateShortNames ==
    /\ pc = "names"
    /\ names' = generate_short_names(ident)
    /\ pc' = "named"
    /\ UNCHANGED <<document, configs, templates, fs, before, run, pi, locals,
                   package_summaries, writes, error, warnings, ident>>

NextNames == GenerateShortNames

SpecNames == InitNames /\ [][NextNames]_vars

\* ------------------------------------------------------------------------
\* create_forecast_styles.py: main
\* ------------------------------------------------------------------------
TYPES == <<"web", "eea">>

\* how a variant's colours are given: a list for each parameter, one shared
\* list, or both
Colourings == {"own", "common", "both"}

\* contour level lists of a style document: three levels, one level, two
LevelLists == << <<0, 50, 100>>, <<5>>, <<10, 200>> >>

\* the settings of one variant of a style document that lists these
\* parameters, the i-th with the i-th level list
VariantSettings(parameters, colouring) ==
    [contour_levels |-> [i \in 1..Len(parameters) |->
        [parameter |-> parameters[i],
         levels |-> LevelLists[((i - 1) % Len(LevelLists)) + 1]]],
     colours |->
        (IF colouring = "common" THEN <<>>
         ELSE [i \in 1..Len(parameters) |->
                  [parameter |-> parameters[i], cols |-> <<"white", "red">>]])
        \o (IF colouring = "own" THEN <<>>
            ELSE <<[parameter |-> COMMON, cols |-> <<"grey", "black">>]>>)]

\* the keys of a mapping of the document: no parameter twice
ParameterLists ==
    {ps \in SeqsUpTo(FrontendNames, MaxRefs) :
        \A i, j \in 1..Len(ps) : ps[i] = ps[j] => i = j}

\* style documents: the web variant, with or without the eea variant
StyleDocuments ==
    {[web |-> VariantSettings(ps, c)] : ps \in ParameterLists, c \in Colourings}
    \cup {[web |-> VariantSettings(ps, c), eea |-> VariantSettings(ps, c)] :
             ps \in ParameterLists, c \in Colourings}

InitStyles ==
    /\ document \in StyleDocuments
    /\ pc = "styles_load"
    /\ fs = NoFiles
    /\ before = NoFiles
    /\ run = 1
    /\ FreshProcess
    /\ warnings = <<>>
    /\ ident = <<>>
    /\ names = <<>>

\* get_backend_api_name(frontend_name, var_config) is not None
BackendFound(frontend_name, var_config) == Registered(var_config, frontend_name)

\* get_backend_api_name(frontend_name, var_config), where it is not None
get_backend_api_name(frontend_name, var_config) ==
    VarData(var_config, frontend_name).backend_api_name

\* main, lines 67-69: the documents and the template are loaded
StylesLoad ==
    /\ pc = "styles_load"
    /\ configs' = [package_config |-> <<>>, var_config |-> VarConfigDocument,
                   style_config |-> document]
    /\ templates' = [NoTemplates EXCEPT !.style = TemplateDocuments.style]
    /\ pi' = 1
    /\ pc' = "styles_type"
    /\ UNCHANGED <<document, fs, before, run, locals, package_summaries, writes,
                   error, others>>

\* main, lines 72-78: a variant the document lacks is skipped with a warning
StylesSkipType ==
    /\ pc = "styles_type"
    /\ pi <= Len(TYPES)
    /\ TYPES[pi] \notin DOMAIN configs.style_config
    /\ warnings' = Append(warnings, [type |-> TYPES[pi], parameter |-> <<>>])
    /\ pi' = pi + 1
    /\ UNCHANGED <<document, configs, templates, fs, before, pc, run, locals,
                   package_summaries, writes, error, ident, names>>

\* main, lines 72-81: the loop over the variant's parameters begins
StylesEnterType ==
    /\ pc = "styles_type"
    /\ pi <= Len(TYPES)
    /\ TYPES[pi] \in DOMAIN configs.style_config
    /\ si' = 1
    /\ pc' = "styles_params"
    /\ UNCHANGED <<document, configs, templates, fs, before, run, pi, gi, li,
                   required_layers, required_styles, var_name, package_summary,
                   package_summaries, writes, error, others>>

\* main, lines 81-91: one pass of the loop over the parameters
StylesParameter ==
    /\ pc = "styles_params"
    /\ si <= Len(configs.style_config[TYPES[pi]].contour_levels)
    /\ LET type_ == TYPES[pi]
           parameter == configs.style_config[type_].contour_levels[si].parameter
       IN  IF ~BackendFound(parameter, configs.var_config)
           THEN \* the warning is printed and the loop continues
                /\ warnings' = Append(warnings, [type |-> type_, parameter |-> parameter])
                /\ UNCHANGED <<fs, writes, templates>>
           ELSE LET new_style == create_style(parameter,
                                     get_backend_api_name(parameter, configs.var_config),
                                     configs.style_config, templates.style, type_)
                    outfile == Path(STYLEDIR, <<>>, new_style.name \o <<".json">>)
                IN  /\ fs' = write_layer(fs, outfile, new_style)
                    /\ writes' = Append(writes, Written(outfile))
                    /\ templates' = [templates EXCEPT
                                        !.style = TemplateAfterBuild(@, new_style)]
                    /\ UNCHANGED warnings
    /\ si' = si + 1
    /\ UNCHANGED <<document, configs, before, pc, run, pi, gi, li, required_layers,
                   required_styles, var_name, package_summary, package_summaries,
                   error, ident, names>>

\* main: the variant's parameters are exhausted
StylesNextType ==
    /\ pc = "styles_params"
    /\ si > Len(configs.style_config[TYPES[pi]].contour_levels)
    /\ pi' = pi + 1
    /\ pc' = "styles_type"
    /\ UNCHANGED <<document, configs, templates, fs, before, run, locals,
                   package_summaries, writes, error, others>>

\* main returns
StylesDone ==
    /\ pc = "styles_type"
    /\ pi > Len(TYPES)
    /\ pc' = "styles_done"
    /\ UNCHANGED <<document, configs, templates, fs, before, run, pi, locals,
                   package_summaries, writes, error, others>>

NextStyles ==
    \/ StylesLoad
    \/ StylesSkipType
    \/ StylesEnterType
    \/ StylesParameter
    \/ StylesNextType
    \/ StylesDone

SpecStyles == InitStyles /\ [][NextStyles]_vars

\* ------------------------------------------------------------------------
\* create_forecast_layers.py: main
\* ------------------------------------------------------------------------
\* a variable record whose document gives no hidden flag
WithoutHidden(record) == [k \in DOMAIN record \ {"hidden"} |-> record[k]]

\* variable records: those of the variable document, shown, hidden, or without
\* the flag
LayerRecords ==
    UNION {{[VarConfigDocument.variable[i] EXCEPT !.hidden = FALSE],
            [VarConfigDocument.variable[i] EXCEPT !.hidden = TRUE],
            WithoutHidden(VarConfigDocument.variable[i])} :
           i \in 1..Len(VarConfigDocument.variable)}

\* variable documents of at most MaxRefs records with distinct frontend names
VariableDocuments ==
    {[variable |-> vs, model |-> VarConfigDocument.model] :
        vs \in {seq \in SeqsUpTo(LayerRecords, MaxRefs) :
                   \A i, j \in 1..Len(seq) :
                       seq[i].frontend_api_name = seq[j].frontend_api_name => i = j}}

\* var_data.get("hidden", True)
IsHidden(var_data) ==
    IF "hidden" \in DOMAIN var_data THEN var_data.hidden ELSE TRUE

InitLayers ==
    /\ document \in VariableDocuments
    /\ pc = "layers_load"
    /\ fs = NoFiles
    /\ before = NoFiles
    /\ run = 1
    /\ FreshProcess
    /\ warnings = <<>>
    /\ ident = <<>>
    /\ names = <<>>

\* main, lines 117-121: the document and the template are loaded, the
\* document is re-keyed
LayersLoad ==
    /\ pc = "layers_load"
    /\ configs' = [NoConfigs EXCEPT !.var_config = Rekey(document)]
    /\ templates' = [NoTemplates EXCEPT !.layer = TemplateDocuments.layer]
    /\ li' = 1
    /\ pc' = "layers_vars"
    /\ UNCHANGED <<document, fs, before, run, pi, gi, si, required_layers,
                   required_styles, var_name, package_summary, package_summaries,
                   writes, error, others>>

\* main, lines 124-131: one pass of the loop over the variables
LayersVariable ==
    /\ pc = "layers_vars"
    /\ li <= Len(configs.var_config.variable)
    /\ LET var_data == configs.var_config.variable[li]
       IN  IF IsHidden(var_data)
           THEN UNCHANGED <<fs, writes, templates>>
           ELSE LET new_layer == create_layer(var_data.frontend_api_name, var_data,
                                              templates.layer, configs.var_config)
                    outfile == Path(LAYERDIR, <<>>, new_layer.name \o <<".json">>)
                IN  /\ fs' = write_layer(fs, outfile, new_layer)
                    /\ writes' = Append(writes, Written(outfile))
                    /\ templates' = [templates EXCEPT
                                        !.layer = TemplateAfterBuild(@, new_layer)]
    /\ li' = li + 1
    /\ UNCHANGED <<document, configs, before, pc, run, pi, gi, si, required_layers,
                   required_styles, var_name, package_summary, package_summaries,
                   error, others>>

\* main returns
LayersDone ==
    /\ pc = "layers_vars"
    /\ li > Len(configs.var_config.variable)
    /\ pc' = "layers_done"
    /\ UNCHANGED <<document, configs, templates, fs, before, run, pi, locals,
                   package_summaries, writes, error, others>>

NextLayers ==
    \/ LayersLoad
    \/ LayersVariable
    \/ LayersDone

SpecLayers == InitLayers /\ [][NextLayers]_vars

\* ------------------------------------------------------------------------
\* yaml_processor.py: apply_defaults
\* ------------------------------------------------------------------------
\* what a product entry of the package document may hold: a mapping with or
\* without 'variables' and with or without keys of its own, or a value that
\* is no mapping (a string, a list, nothing)
EntryInfos ==
    {[mapping |-> TRUE, value |-> [variables |-> <<"nitrogen_dioxide">>]],
     [mapping |-> TRUE, value |-> [title |-> "own title"]],
     [mapping |-> TRUE, value |-> [title |-> "own title", variables |-> <<"ozone">>]],
     [mapping |-> TRUE, value |-> [levels |-> "all"]],
     [mapping |-> FALSE, value |-> [str |-> "nitrogen_dioxide"]],
     [mapping |-> FALSE, value |-> [list |-> <<"nitrogen_dioxide">>]],
     [mapping |-> FALSE, value |-> [none |-> "null"]]}

ProductTypes == <<"single", "grouped">>

\* the product entries of a package in the order the two loops visit them
EntryLists ==
    {es \in SeqsUpTo([type : 1..Len(ProductTypes), info : EntryInfos], MaxRefs) :
        \A i \in 1..(Len(es) - 1) : es[i].type <= es[i + 1].type}

\* packages of the document processed by process_yaml_config, without and
\* with a 'variables' key of their own
PackageDocuments ==
    {[title |-> "CAMS European air quality", levels |-> "surface", products |-> es] :
        es \in EntryLists}
    \cup {[title |-> "CAMS European air quality", levels |-> "surface",
           variables |-> <<"sulphur_dioxide">>, products |-> es] :
             es \in EntryLists}

\* {key: package[key] for key in package if key != "products"}
parent_properties(package) ==
    [key \in DOMAIN package \ {"products"} |-> package[key]]

\* the entry's properties with the parent's properties written over them
merged_properties_parent_last(parent, product_info) ==
    Update(Update(product_info,
                  [variables |-> IF "variables" \in DOMAIN product_info
                                 THEN product_info.variables ELSE <<>>]),
           parent)

\* lines 27-38: the parent's properties, 'variables' of the entry or an empty
\* list, then the entry's own properties over them
merged_properties(parent, product_info) ==
    Update(Update(parent,
                  [variables |-> IF "variables" \in DOMAIN product_info
                                 THEN product_info.variables ELSE <<>>]),
           product_info)

\* the loop body without the isinstance test: every entry is merged
EntryMergedUnchecked(parent, entry) ==
    [mapping |-> TRUE, value |-> merged_properties(parent, entry.value)]

\* lines 20-41: what the entry is after the pass of the loop over it
EntryAfterPass(parent, entry) ==
    IF ~entry.mapping
    THEN entry
    ELSE [mapping |-> TRUE, value |-> merged_properties(parent, entry.value)]

InitDefaults ==
    /\ document \in PackageDocuments
    /\ pc = "defaults_call"
    /\ fs = NoFiles
    /\ before = NoFiles
    /\ run = 1
    /\ FreshProcess
    /\ warnings = <<>>
    /\ ident = <<>>
    /\ names = <<>>

\* apply_defaults(package) is called: line 12
DefaultsCall ==
    /\ pc = "defaults_call"
    /\ configs' = [NoConfigs EXCEPT !.package_config = document]
    /\ gi' = 1
    /\ pc' = "defaults_loop"
    /\ UNCHANGED <<document, templates, fs, before, run, pi, li, si, required_layers,
                   required_styles, var_name, package_summary, package_summaries,
                   writes, error, others>>

\* lines 15-41: one pass of the loops over the product entries
DefaultsEntry ==
    /\ pc = "defaults_loop"
    /\ gi <= Len(configs.package_config.products)
    /\ LET package == configs.package_config
           entry == package.products[gi]
       IN  /\ configs' = [configs EXCEPT !.package_config.products[gi].info =
                             EntryAfterPass(parent_properties(package), @)]
           /\ warnings' = IF entry.info.mapping THEN warnings
                          ELSE Append(warnings, [type |-> ProductTypes[entry.type],
                                                 parameter |-> gi])
    /\ gi' = gi + 1
    /\ UNCHANGED <<document, templates, fs, before, pc, run, pi, li, si,
                   required_layers, required_styles, var_name, package_summary,
                   package_summaries, writes, error, ident, names>>

\* apply_defaults returns
DefaultsReturn ==
    /\ pc = "defaults_loop"
    /\ gi > Len(configs.package_config.products)
    /\ pc' = "defaults_done"
    /\ UNCHANGED <<document, configs, templates, fs, before, run, pi, locals,
                   package_summaries, writes, error, others>>

NextDefaults ==
    \/ DefaultsCall
    \/ DefaultsEntry
    \/ DefaultsReturn

SpecDefaults == InitDefaults /\ [][NextDefaults]_vars

\* ------------------------------------------------------------------------
\* The unit clean-up of the layer builder on its own
\* ------------------------------------------------------------------------
\* most pieces a drawn display-unit string is put together from
MaxPieces == 3

\* pieces of display-unit strings: the marker, the tags, and parts of them
UnitPieces ==
    {MARKER, SUP, SUP_END, <<"3">>,
     <<"n", "e", "t", "C">>, <<"D", "F", ":">>,
     <<"<", "s">>, <<"u", "p", ">">>, <<"<", "/", "s">>}

RECURSIVE Flatten(_)
Flatten(pieces) ==
    IF pieces = <<>> THEN <<>> ELSE Head(pieces) \o Flatten(Tail(pieces))

\* the display-unit strings of the variable document, and strings of pieces
UnitStrings ==
    {VarConfigDocument.variable[i].var_table_units :
        i \in 1..Len(VarConfigDocument.variable)}
    \cup {Flatten(pieces) : pieces \in SeqsUpTo(UnitPieces, MaxPieces)}

InitUnits ==
    /\ ident \in UnitStrings
    /\ names = <<>>
    /\ document = <<>>
    /\ pc = "unit"
    /\ Idle

\* create_layer, line 64: the unit of var_data["var_table_units"] is derived
DeriveUnit ==
    /\ pc = "unit"
    /\ names' = UnitOf(ident)
    /\ pc' = "unit_derived"
    /\ UNCHANGED <<document, configs, templates, fs, before, run, pi, locals,
                   package_summaries, writes, error, warnings, ident>>

NextUnits == DeriveUnit

SpecUnits == InitUnits /\ [][NextUnits]_vars

\* ------------------------------------------------------------------------
\* resource_utils.py: create_product
\* ------------------------------------------------------------------------
\* Python's None
NULL == [none |-> "null"]

\* label_mapping[level]
LevelLabel(level) ==
    CASE level = "surface" -> "Surface" [] level = "100m" -> "100 m"
      [] level = "1000m" -> "1000 m" [] level = "3000m" -> "3000 m"
      [] level = "5000m" -> "5000 m"

\* value_mapping[level]
LevelValue(level) ==
    CASE level = "surface" -> "key_0" [] level = "100m" -> "key_100"
      [] level = "1000m" -> "key_1000" [] level = "3000m" -> "key_3000"
      [] level = "5000m" -> "key_5000"

\* create_height_variable; levels is a string [str |-> s] or a list [list |-> l]
create_height_variable(levels) ==
    IF levels = [str |-> "surface"] \/ levels = [list |-> <<"surface">>]
    THEN NULL
    ELSE LET listed == IF "str" \in DOMAIN levels THEN <<levels.str>> ELSE levels.list
         IN  [name |-> "level", title |-> "Height level", type |-> "choice",
              labels |-> [i \in 1..Len(listed) |-> LevelLabel(listed[i])],
              values |-> [i \in 1..Len(listed) |-> LevelValue(listed[i])]]

\* suffix.replace('-', '_') of the two suffixes
SuffixUnderscored(suffix) == IF suffix = <<"-eea">> THEN <<"_eea">> ELSE suffix

\* create_click_features, where every variable of var_list is registered
create_click_features(var_list, var_config, suffix) ==
    IF Len(var_list) = 1
    THEN [feature |-> "cams_plumes",
          options |-> << [product |-> <<"plume_cams_eu_">> \o JoinWords(var_list[1], "_")
                                         \o SuffixUnderscored(suffix),
                          title |-> <<"Ground-level ">> \o LongName(var_list[1])
                                       \o <<" concentrations">>] >>,
          tooltip |-> <<"Click on the map to see the graph of forecasted ground-level ">>
                          \o LongName(var_list[1])
                          \o <<" concentrations for that location">>]
    ELSE [feature |-> "cams_plumes",
          options |-> [i \in 1..Len(var_list) |->
              [key |-> "layer_name",
               product |-> <<"plume_cams_eu_">> \o JoinWords(var_list[i], "_") \o suffix,
               title |-> <<"Ground-level ">> \o LongName(var_list[i])
                            \o <<" concentrations">>,
               value |-> LayerName(generate_short_names(
                            VarData(var_config, var_list[i]).backend_api_name)[1])
                         \o suffix]],
          tooltip |-> <<"Click to generate a plume plot">>]

\* input_vars is a string [str |-> name] or a list [list |-> names]
InputList(input_vars) ==
    IF "str" \in DOMAIN input_vars THEN <<input_vars.str>> ELSE input_vars.list

\* create_product raises: input_vars is a list of fewer than two names (line
\* 203), or create_click_features finds a name without a registry record
ProductRaises(input_vars, var_config) ==
    \/ "list" \in DOMAIN input_vars /\ Len(input_vars.list) <= 1
    \/ \E i \in 1..Len(InputList(input_vars)) :
          ~Registered(var_config, InputList(input_vars)[i])

\* create_product, lines 188-229, where it does not raise: the record it writes
create_product(input_vars, var_config, package_data, type, group_name, template) ==
    LET suffix == IF package_data.flag = "eea" THEN <<"-eea">> ELSE <<>>
        single == "str" \in DOMAIN input_vars
        var_list == InputList(input_vars)
        product_name ==
            IF single
            THEN <<package_data.base_name, "-">> \o JoinWords(input_vars.str, "_")
                     \o <<"-", type>> \o suffix
            ELSE <<package_data.base_name, "-", type, "-", group_name>> \o suffix
        product_title ==
            IF single
            THEN <<package_data.base_title, " ">> \o LongName(input_vars.str)
                     \o <<" ", type>>
            ELSE <<package_data.base_title, " ", type, " of ", package_data.title>>
        updated == Update(template,
            [name |-> product_name,
             title |-> product_title,
             package |-> package_data.package_name,
             description |-> package_data.description,
             click_features |-> create_click_features(var_list, var_config, suffix)])
    IN  [updated EXCEPT
            !.variables =
                @ \o (IF single THEN <<>>
                      ELSE <<create_layer_name_variable(var_list, var_config, suffix)>>)
                  \o (IF package_data.flag = "web"
                      THEN <<create_models_variable(var_config),
                             create_height_variable(package_data.levels)>>
                      ELSE <<>>)]

\* the 'levels' entries of package configurations
LevelSettings ==
    {[str |-> "surface"], [list |-> <<"surface">>], [str |-> "100m"],
     [list |-> <<"surface", "100m", "1000m">>]}

\* package configurations after apply_defaults, as create_product reads them
ProductPackages ==
    {[flag |-> flag, levels |-> levels, base_name |-> "europe",
      base_title |-> "European air quality", title |-> "main pollutants",
      package_name |-> "cams_air_quality", description |-> "CAMS European forecasts"] :
        flag \in {"web", "eea"}, levels \in LevelSettings}

\* what create_product is called with
ProductInputs ==
    {[str |-> v] : v \in FrontendNames}
    \cup {[list |-> vs] : vs \in SeqsUpTo(FrontendNames, MaxRefs)}

InitProduct ==
    /\ document \in [input_vars : ProductInputs, package_data : ProductPackages]
    /\ pc = "product_call"
    /\ fs = NoFiles
    /\ before = NoFiles
    /\ run = 1
    /\ FreshProcess
    /\ warnings = <<>>
    /\ ident = <<>>
    /\ names = <<>>

\* create_product(input_vars, var_config, package_dir, package_data, type,
\* group_name) is called and writes the product file or raises
CreateProduct ==
    /\ pc = "product_call"
    /\ LET var_config == Rekey(VarConfigDocument)
           package_dir == <<document.package_data.package_name, "_",
                            document.package_data.flag>>
       IN  IF ProductRaises(document.input_vars, var_config)
           THEN /\ pc' = UncaughtError(pc)
                /\ error' = [raised |-> TRUE, package |-> 0, writes |-> 0]
                /\ UNCHANGED <<fs, writes>>
           ELSE LET new_product == create_product(document.input_vars, var_config,
                                       document.package_data, "forecast",
                                       "main_pollutants", TemplateDocuments.product)
                    outfile == Path(PRODUCTDIR, package_dir,
                                    new_product.name \o <<".json">>)
                IN  /\ fs' = write_layer(fs, outfile, new_product)
                    /\ writes' = Append(writes, [path |-> outfile, package |-> 0])
                    /\ pc' = "product_written"
                    /\ UNCHANGED error
    /\ UNCHANGED <<document, configs, templates, before, run, pi, locals,
                   package_summaries, others>>

NextProduct == CreateProduct

SpecProduct == InitProduct /\ [][NextProduct]_vars

\* ------------------------------------------------------------------------
\* Properties
\* ------------------------------------------------------------------------
\* the packages whose call of process_package has returned in this run
FinishedPackages == 1..(pi - 1)

\* the paths under dir that process_package wrote for package p, in order
WritesOf(p, dir) ==
    LET mine == SelectSeq(writes, LAMBDA w : w.package = p /\ w.path.dir = dir)
    IN  [i \in 1..Len(mine) |-> mine[i].path]

Range(seq) == {seq[i] : i \in 1..Len(seq)}

\* the product records in the product directory of package p
ProductsOf(p) ==
    {fs[q][1] : q \in {f \in DOMAIN fs : f.dir = PRODUCTDIR
                                          /\ f.sub = <<PackageNames[p], "_", TYPE>>}}

\* the layer names in the layer lists of the products of package p
LayerRefs(p) ==
    UNION {{prod.layers[k].name : k \in 1..Len(prod.layers)} : prod \in ProductsOf(p)}

\* the style names in the layer lists of the products of package p
StyleRefs(p) ==
    UNION {{prod.layers[k].style :
               k \in {j \in 1..Len(prod.layers) : "style" \in DOMAIN prod.layers[j]}} :
           prod \in ProductsOf(p)}

\* the layers and styles every product lists and no generator builds
SupportingLayers == {<<"foreground">>, <<"grid">>, <<"boundaries">>}
SupportingStyles == {<<"medium_res_foreground">>, <<"black_boundaries">>}

\* the file of a resource of that name
FileOf(dir, name) == Path(dir, <<>>, name \o <<".json">>)

\* the variables listed in the groups of package p
GroupVariables(p) ==
    UNION {Range(configs.package_config[p].products.grouped[g].variables) :
              g \in 1..Len(configs.package_config[p].products.grouped)}

\* C1 as stated: after process_package has finished for a package, every layer
\* name in the layer list of each of its products, the data layer and the fixed
\* supporting layers alike, is the name of a layer file that package generated.
C1_EveryListedLayerGenerated ==
    \A p \in FinishedPackages :
        \A name \in LayerRefs(p) : FileOf(LAYERDIR, name) \in Range(WritesOf(p, LAYERDIR))

\* C1 amended: after process_package has finished for a package, the data layer
\* of each of its products (every listed layer other than foreground, grid and
\* boundaries) is the name of a layer file that package generated in this run.
C1_DataLayerGenerated ==
    \A p \in FinishedPackages :
        \A name \in LayerRefs(p) \ SupportingLayers :
            /\ FileOf(LAYERDIR, name) \in Range(WritesOf(p, LAYERDIR))
            /\ FileOf(LAYERDIR, name) \in DOMAIN fs

\* a package has finished and has a product with a data layer
C1_Witness ==
    \E p \in FinishedPackages : LayerRefs(p) \ SupportingLayers # {}

\* C2 as stated: for every package, the style names its products reference are
\* exactly the style files generated for it.
C2_StyleRefsEqualGenerated ==
    \A p \in FinishedPackages :
        {FileOf(STYLEDIR, name) : name \in StyleRefs(p)} = Range(WritesOf(p, STYLEDIR))

\* C2 amended: for every package, every style a product's data layer names is a
\* style file generated for the package, and the style files generated are
\* exactly the styles sh_<short>_<variant>_surface_concentration of the
\* variables listed in the package's groups.
C2_DataStylesGenerated ==
    \A p \in FinishedPackages :
        /\ {FileOf(STYLEDIR, name) : name \in StyleRefs(p) \ SupportingStyles}
               \subseteq Range(WritesOf(p, STYLEDIR))
        /\ Range(WritesOf(p, STYLEDIR))
               = {FileOf(STYLEDIR, StyleName(
                      ShortName(VarData(configs.var_config, v).backend_api_name), TYPE)) :
                  v \in GroupVariables(p)}

\* a package has finished for which more styles were generated than its
\* products' layer lists name
C2_Witness ==
    \E p \in FinishedPackages :
        Cardinality(Range(WritesOf(p, STYLEDIR)))
            > Cardinality(StyleRefs(p) \ SupportingStyles)

Distinct(seq) == \A i, j \in 1..Len(seq) : seq[i] = seq[j] => i = j

\* the three phases of process_package are over for package pi
PhasesOver == pc = "styles" /\ si > Len(required_styles)

\* C3: the layer and style files process_package writes are exactly those whose
\* names were recorded in required_layers / required_styles, and each recorded
\* name is written exactly once per package.
C3_RecordedWrittenOnce ==
    PhasesOver =>
        /\ WritesOf(pi, LAYERDIR)
               = [i \in 1..Len(required_layers) |-> FileOf(LAYERDIR, required_layers[i].name)]
        /\ WritesOf(pi, STYLEDIR)
               = [i \in 1..Len(required_styles) |-> FileOf(STYLEDIR, required_styles[i].name)]
        /\ Distinct(WritesOf(pi, LAYERDIR))
        /\ Distinct(WritesOf(pi, STYLEDIR))

\* the phases are over for a package whose groups list more variables than
\* there are recorded names: several variables mapped to one name
C3_Witness ==
    /\ PhasesOver
    /\ required_layers # <<>>
    /\ \E g \in 1..Len(configs.package_config[pi].products.grouped) :
          Len(configs.package_config[pi].products.grouped[g].variables)
              > Len(required_layers)

\* the product file of a single product of that variable
SingleProductFile(p, variable) ==
    Path(PRODUCTDIR, <<PackageNames[p], "_", TYPE>>,
         <<"europe-">> \o JoinWords(variable, "_") \o <<"-forecast", "-", TYPE, ".json">>)

\* C4: for every package, every product configured in its products section, in
\* the 'single' subsection as well as in the 'grouped' subsection, has one
\* product file written.
C4_EveryProductWritten ==
    \A p \in FinishedPackages :
        LET products == configs.package_config[p].products
        IN  /\ \A i \in 1..Len(products.single) :
                  SingleProductFile(p, products.single[i]) \in Range(WritesOf(p, PRODUCTDIR))
            /\ \A g \in 1..Len(products.grouped) :
                  Path(PRODUCTDIR, <<PackageNames[p], "_", TYPE>>,
                       ProductName(products.grouped[g].name) \o <<"-", TYPE, ".json">>)
                      \in Range(WritesOf(p, PRODUCTDIR))

\* C5: running main twice in a row on unchanged documents leaves the same files
\* with the same content as the first run left.
C5_RerunLeavesSameFiles ==
    (run = 2 /\ pc \in {"done", "aborted"}) => fs = before

\* the second run has completed and has written layers and styles
C5_Witness ==
    /\ run = 2
    /\ pc = "done"
    /\ \E q \in DOMAIN fs : q.dir = LAYERDIR
    /\ \E q \in DOMAIN fs : q.dir = STYLEDIR

C8_MissingNameAborts ==
    (pc = "styles_params"
        /\ \E k \in 1..(si - 1) :
              ~Registered(configs.var_config,
                          configs.style_config[TYPES[pi]].contour_levels[k].parameter))
        => error.raised

\* C9: when a missing-metadata error is raised while main processes a package,
\* the run ends there: no later package is processed, no further file is
\* written, no summary is emitted.
C9_ErrorEndsRun ==
    error.raised =>
        /\ pc = "aborted"
        /\ Len(writes) = error.writes
        /\ \A w \in Range(writes) : w.package \in 1..error.package /\ w.path # SummaryFile
        /\ Len(package_summaries) < error.package
        /\ SummaryFile \notin DOMAIN fs \ DOMAIN before

\* the first package raised while a later package has groups to process
C9_Witness ==
    /\ error.raised
    /\ error.package = 1
    /\ writes # <<>>
    /\ \E p \in 2..Len(configs.package_config) :
          configs.package_config[p].products.grouped # <<>>

\* ident is 'C_' + body + '_USI'
MatchesPattern(s) == Len(s) >= Len(PREFIX) + Len(SUFFIX) /\ StartsWith(s, PREFIX) /\ EndsWith(s, SUFFIX)

UpperChars == {"C", "U", "S", "I", "N", "O", "P", "M", "X"}

\* C10: for every identifier 'C_' + body + '_USI' the short name is the body,
\* lowercased, with pm25 replaced by pm2p5, and the spaced form is the short
\* name with every underscore replaced by a space; 'C_NO2_USI' gives 'no2' twice.
C10_PatternShortName ==
    (pc = "named" /\ MatchesPattern(ident)) =>
        LET body == SubSeq(ident, Len(PREFIX) + 1, Len(ident) - Len(SUFFIX))
            expected == Replace(Lower(body), PM25, PM2P5)
        IN  /\ names[1] = expected
            /\ \A i \in 1..Len(names[1]) : names[1][i] \notin UpperChars
            /\ Len(names[2]) = Len(names[1])
            /\ \A i \in 1..Len(names[1]) :
                  names[2][i] = IF names[1][i] = "_" THEN " " ELSE names[1][i]
            /\ ident = <<"C", "_", "N", "O", "2", "_", "U", "S", "I">>
                  => names = << <<"n", "o", "2">>, <<"n", "o", "2">> >>

\* the deriver has returned for a matching identifier whose body has capitals,
\* the pm25 code and nothing else
C10_Witness ==
    /\ pc = "named"
    /\ ident = PREFIX \o <<"P", "m", "2", "5">> \o SUFFIX
    /\ names[1] = PM2P5

\* C11: for every input string the short name has every occurrence of 'pm25' of
\* the lowercased, stripped identifier replaced by 'pm2p5' (one character more
\* for each), and the short name never contains 'pm25'.
C11_Pm25Replaced ==
    pc = "named" =>
        LET lowered == Lower(ReSubPrefixSuffix(ident))
        IN  /\ Occurrences(names[1], PM25) = {}
            /\ Len(names[1]) = Len(lowered) + Cardinality(Occurrences(lowered, PM25))
            /\ Cardinality(Occurrences(names[1], PM2P5))
                   >= Cardinality(Occurrences(lowered, PM25))

\* the deriver has returned for an identifier that carries the code twice
C11_Witness ==
    /\ pc = "named"
    /\ Cardinality(Occurrences(Lower(ident), PM25)) >= 2
    /\ Cardinality(Occurrences(names[1], PM2P5)) >= 2

HasPrefix(s) == StartsWith(s, PREFIX)

\* '_USI$' matches at the end of s, or before a newline that ends s
HasSuffix(s) == EndsWith(s, SUFFIX) \/ EndsWith(s, SUFFIX \o <<NEWLINE>>)

\* C12 as stated: an identifier that lacks the 'C_' prefix, or the '_USI'
\* suffix, or both, is returned unchanged except for lowercasing and the
\* pm25 -> pm2p5 substitution.
C12_MalformedUnchanged ==
    (pc = "named" /\ ~MatchesPattern(ident)) =>
        names[1] = Replace(Lower(ident), PM25, PM2P5)

\* C12 amended: the deriver returns for every identifier; an identifier with
\* neither the prefix nor the suffix is returned unchanged except for
\* lowercasing and the substitution, one with the prefix alone has the prefix
\* removed, one with the suffix alone has the suffix removed.
C12_MalformedStripped ==
    (pc = "named" /\ ~MatchesPattern(ident)) =>
        /\ Len(names) = 2
        /\ (~HasPrefix(ident) /\ ~HasSuffix(ident))
              => names[1] = Replace(Lower(ident), PM25, PM2P5)
        /\ (HasPrefix(ident) /\ ~HasSuffix(ident))
              => names[1] = Replace(Lower(DropFirst(ident, Len(PREFIX))), PM25, PM2P5)
        /\ (~HasPrefix(ident) /\ EndsWith(ident, SUFFIX))
              => names[1] = Replace(Lower(DropLast(ident, Len(SUFFIX))), PM25, PM2P5)

\* the deriver has returned for an identifier with the prefix and no suffix
C12_Witness ==
    /\ pc = "named"
    /\ ident = PREFIX \o <<"P", "m", "2", "5">>
    /\ names[1] = PM2P5

\* the product file of group g of the package being processed
GroupProductFile(g) ==
    Path(PRODUCTDIR, <<PackageNames[pi], "_", TYPE>>,
         ProductName(configs.package_config[pi].products.grouped[g].name)
             \o <<"-", TYPE, ".json">>)

\* the selector variable named layer_name of a product record
LayerNameSelector(product) ==
    product.variables[CHOOSE i \in 1..Len(product.variables) :
                          product.variables[i].name = "layer_name"]

LastVariable == configs.var_config.variable[li - 1]

\* the five pollutants of the air-quality index
IndexPollutants ==
    {<<"nitrogen", "dioxide">>, <<"ozone">>, <<"particulate", "matter", "2p5um">>,
     <<"particulate", "matter", "10um">>, <<"sulphur", "dioxide">>}

\* C14: the styles list of the layer built for a variable is the primary style
\* sh_<short>_web_surface_concentration (also the layer's 'style' field), then
\* sh_<short>_aqi_surface_concentration if and only if the variable is one of
\* the five index pollutants, then the four colour-ramp styles; the layer of
\* nitrogen_dioxide / C_NO2_USI is composition_europe_no2_forecast_surface and
\* lists both sh_no2_web_surface_concentration and
\* sh_no2_aqi_surface_concentration.
C14_StyleListOfLayer ==
    (pc = "layers_vars" /\ li > 1 /\ ~IsHidden(LastVariable)) =>
        LET short_name == ShortName(LastVariable.backend_api_name)
            layer == fs[Last(writes).path][1]
            primary == <<"sh_">> \o short_name \o <<"_", "web", "_surface_concentration">>
            index == <<"sh_">> \o short_name \o <<"_", "aqi", "_surface_concentration">>
            ramps == << <<"sh_Reds_surface_concentration">>,
                        <<"sh_Purples_surface_concentration">>,
                        <<"sh_Greens_surface_concentration">>,
                        <<"sh_Oranges_surface_concentration">> >>
        IN  /\ layer.style = primary
            /\ layer.styles =
                  <<primary>>
                  \o (IF LastVariable.frontend_api_name \in IndexPollutants
                      THEN <<index>> ELSE <<>>)
                  \o ramps
            /\ (/\ LastVariable.frontend_api_name = <<"nitrogen", "dioxide">>
                /\ LastVariable.backend_api_name
                       = <<"C", "_", "N", "O", "2", "_", "U", "S", "I">>)
                  => /\ layer.name = <<"composition_europe_", "n", "o", "2",
                                       "_forecast_surface">>
                     /\ <<"sh_", "n", "o", "2", "_", "web", "_surface_concentration">>
                            \in Range(layer.styles)
                     /\ <<"sh_", "n", "o", "2", "_", "aqi", "_surface_concentration">>
                            \in Range(layer.styles)

\* the layer generator has built layers for an index pollutant and for a
\* variable that is not one
C14_Witness ==
    /\ pc = "layers_done"
    /\ \E q \in DOMAIN fs : Len(fs[q][1].styles) = 6
    /\ \E q \in DOMAIN fs : Len(fs[q][1].styles) = 5

\* the record a write of this run left in its file
RecordAt(w) == fs[w.path][1]

\* the writes of this run into the four output directories
ResourceWrites == {w \in Range(writes) : InDirs(w.path, OutputDirs)}

RecordBuiltFrom(required, i) == VarDataByBackend(configs.var_config, required[i].backend)

\* C16: no layer and no style is generated for a variable whose record marks it
\* hidden, also when a product group of a package lists that variable.
C16_HiddenNotGenerated ==
    PhasesOver =>
        /\ \A i \in 1..Len(required_layers) :
              FileOf(LAYERDIR, required_layers[i].name) \in Range(WritesOf(pi, LAYERDIR))
                  => ~IsHidden(RecordBuiltFrom(required_layers, i))
        /\ \A i \in 1..Len(required_styles) :
              FileOf(STYLEDIR, required_styles[i].name) \in Range(WritesOf(pi, STYLEDIR))
                  => ~IsHidden(RecordBuiltFrom(required_styles, i))

\* the names the variables of a group derive with the given composition
NamesOfGroup(p, g, Compose(_)) ==
    {Compose(ShortName(VarData(configs.var_config, v).backend_api_name)) :
        v \in Range(configs.package_config[p].products.grouped[g].variables)}

WebStyleName(short_name) == <<"sh_">> \o short_name \o <<"_", TYPE, "_surface_concentration">>

PlainLayerName(short_name) == <<"composition_europe_">> \o short_name \o <<"_forecast_surface">>

\* C17: in the summary handed to create_summary the entry of every product
\* lists the layer name and the style name of every variable the product
\* references, also those an earlier product of the package references.
C17_SummaryListsEveryReference ==
    \A p \in 1..Len(package_summaries) :
        LET products == package_summaries[p].summary.products
        IN  \A g \in 1..Len(products) :
                /\ Range(products[g].layers) = NamesOfGroup(p, g, PlainLayerName)
                /\ Range(products[g].styles) = NamesOfGroup(p, g, WebStyleName)

\* C18: apply_defaults does not abort on a product entry that is no mapping:
\* it returns with that entry exactly as it was, and with every other entry of
\* the package, before and after it, merged with the parent properties (the
\* parent's value for every key the entry does not set, the entry's own value
\* for every key it sets, and a 'variables' key).
C18_NonMappingSkippedOthersMerged ==
    pc = "defaults_done" =>
        /\ ~error.raised
        /\ Len(configs.package_config.products) = Len(document.products)
        /\ \A i \in 1..Len(document.products) :
              LET was == document.products[i].info
                  now == configs.package_config.products[i].info
                  parent == [title |-> document.title, levels |-> document.levels]
              IN  IF ~was.mapping
                  THEN now = was
                  ELSE /\ now.mapping
                       /\ DOMAIN now.value = {"title", "levels", "variables"}
                       /\ \A key \in DOMAIN now.value :
                             now.value[key] =
                                 IF key \in DOMAIN was.value THEN was.value[key]
                                 ELSE IF key = "variables" THEN <<>> ELSE parent[key]

\* apply_defaults has returned for a package whose second entry is no mapping
\* and whose first and third entries are mappings
C18_Witness ==
    /\ pc = "defaults_done"
    /\ Len(document.products) = 3
    /\ document.products[1].info.mapping
    /\ ~document.products[2].info.mapping
    /\ document.products[3].info.mapping
    /\ Len(warnings) = 1

\* everything process_package wrote for package p, in order
AllWritesOf(p) == SelectSeq(writes, LAMBDA w : w.package = p)

\* the place of a directory in the order of the phases
PhaseOf(dir) ==
    CASE dir = PACKAGEDIR -> 1 [] dir = PRODUCTDIR -> 2 [] dir = LAYERDIR -> 3
      [] dir = STYLEDIR -> 4

\* C19: within process_package the package file is written first, then the
\* product files, then the layer files, then the style files; the first layer
\* file is written only after every group of the package has its product
\* file; so when a product's variable is missing from the registry no layer
\* and no style file of that package has been written.
C19_PhasesInOrder ==
    \A p \in 1..Len(configs.package_config) :
        LET mine == AllWritesOf(p)
            grouped == configs.package_config[p].products.grouped
        IN  /\ mine # <<>> => mine[1].path.dir = PACKAGEDIR
            /\ \A i, j \in 1..Len(mine) :
                  i < j => /\ PhaseOf(mine[i].path.dir) <= PhaseOf(mine[j].path.dir)
                           /\ mine[j].path.dir # PACKAGEDIR
            /\ WritesOf(p, LAYERDIR) # <<>> =>
                  \A g \in 1..Len(grouped) :
                      Path(PRODUCTDIR, <<PackageNames[p], "_", TYPE>>,
                           ProductName(grouped[g].name) \o <<"-", TYPE, ".json">>)
                          \in Range(WritesOf(p, PRODUCTDIR))
            /\ (/\ error.raised
                /\ error.package = p
                /\ \E v \in GroupVariables(p) : ~Registered(configs.var_config, v))
                  => /\ WritesOf(p, LAYERDIR) = <<>>
                     /\ WritesOf(p, STYLEDIR) = <<>>

\* a variable of a package's second group is missing from the registry: the
\* error was raised after the product file of the first group was written
C19_Witness ==
    /\ error.raised
    /\ WritesOf(error.package, PRODUCTDIR) # <<>>
    /\ WritesOf(error.package, LAYERDIR) = <<>>

\* the style the style generator wrote in the pass of its loop that just ended
LastStyle == fs[Last(writes).path][1]

\* a pass of the style generator's loop has just written a style
StyleJustWritten ==
    /\ pc = "styles_params"
    /\ si > 1
    /\ writes # <<>>
    /\ BackendFound(configs.style_config[TYPES[pi]].contour_levels[si - 1].parameter,
                    configs.var_config)

\* the colour lists of the style documents, joined as json holds them
OwnColourList == <<"white", "/", "red">>
CommonColourList == <<"grey", "/", "black">>

\* the colour entries of the variant in process
ColourKeys ==
    {configs.style_config[TYPES[pi]].colours[i].parameter :
        i \in 1..Len(configs.style_config[TYPES[pi]].colours)}

\* C20 as stated: when the variant's colours hold a list for the variable and a
\* 'common' list, the style's contour_shade_colour_list is the variable's own
\* list; the 'common' list is used only where the variable has none.
C20_OwnListBeforeCommon ==
    StyleJustWritten =>
        LastStyle.data.contour.contour_shade_colour_list =
            IF configs.style_config[TYPES[pi]].contour_levels[si - 1].parameter \in ColourKeys
            THEN OwnColourList ELSE CommonColourList

\* C20 amended: when the variant's colours hold a 'common' list, the style's
\* contour_shade_colour_list is the 'common' list, whether or not the variable
\* has a list of its own; the variable's own list is used only where there is
\* no 'common' list.
C20_CommonListBeforeOwn ==
    StyleJustWritten =>
        LastStyle.data.contour.contour_shade_colour_list =
            IF COMMON \in ColourKeys THEN CommonColourList ELSE OwnColourList

\* a style has been written for a variable where the variant's colours hold
\* its own list and the 'common' list
C20_Witness ==
    /\ StyleJustWritten
    /\ COMMON \in ColourKeys
    /\ configs.style_config[TYPES[pi]].contour_levels[si - 1].parameter \in ColourKeys
    /\ LastStyle.data.contour.contour_shade_colour_list = CommonColourList

\* the contour levels configured for the parameter of the pass that just ended
LastLevels == configs.style_config[TYPES[pi]].contour_levels[si - 1].levels

\* C21: for a non-empty contour level list the style's title embeds
\* 'Range: <first level> / <last level>' with the levels as integers,
\* contour_legend_text equals the title, contour_level_list is the levels joined
\* by '/', and contour_shade_min_level is the first level; for [0, 50, 100] the
\* title embeds 'Range: 0 / 100'.
C21_TitleAndContourSettings ==
    StyleJustWritten =>
        LET contour == LastStyle.data.contour
            title == LastStyle.title
        IN  /\ SubSeq(title, 1, 4)
                   = <<"Contour shade (Range: ", ToString(LastLevels[1]), " / ",
                       ToString(LastLevels[Len(LastLevels)])>>
            /\ contour.contour_legend_text = title
            /\ Len(contour.contour_level_list) = 2 * Len(LastLevels) - 1
            /\ \A i \in 1..Len(contour.contour_level_list) :
                  contour.contour_level_list[i] =
                      IF i % 2 = 1 THEN ToString(LastLevels[(i + 1) \div 2]) ELSE "/"
            /\ contour.contour_shade_min_level = LastLevels[1]
            /\ LastLevels = <<0, 50, 100>> =>
                  /\ SubSeq(title, 1, 4) = <<"Contour shade (Range: ", "0", " / ", "100">>
                  /\ contour.contour_level_list = <<"0", "/", "50", "/", "100">>

\* styles were written for a list of three levels and for a list of one level
C21_Witness ==
    /\ StyleJustWritten
    /\ Len(LastLevels) = 1
    /\ \E q \in DOMAIN fs :
          fs[q][1].data.contour.contour_level_list = <<"0", "/", "50", "/", "100">>

\* C22: for every display-unit string the unit the layer builder derives
\* contains neither the marker 'netCDF:' nor the tags '<sup>' and '</sup>'.
C22_UnitFreeOfMarkerAndTags ==
    pc = "unit_derived" =>
        /\ Occurrences(names, MARKER) = {}
        /\ Occurrences(names, SUP) = {}
        /\ Occurrences(names, SUP_END) = {}

\* the selector variable named originating_centre of a record
ModelSelector(record) ==
    record.variables[CHOOSE i \in 1..Len(record.variables) :
                         record.variables[i].name = "originating_centre"]

\* the value and the label the selector gives a model of the registry
ValueOfModel(model) ==
    <<model.grib_representations[1].centre, "_", model.grib_representations[1].subCentre>>

\* C23: in the model selector of every product and every layer the value of
\* the 'ensemble' model is the first entry, every model of the registry appears
\* exactly once, and where labels are present labels[i] belongs to the model of
\* values[i].
C23_EnsembleFirstInEverySelector ==
    \A w \in {x \in ResourceWrites : x.path.dir \in {PRODUCTDIR, LAYERDIR}} :
        LET selector == ModelSelector(RecordAt(w))
            models == configs.var_config.model
        IN  /\ Len(selector.values) = Len(models)
            /\ \A m \in 1..Len(models) :
                  /\ Cardinality({i \in 1..Len(selector.values) :
                                     selector.values[i] = ValueOfModel(models[m])}) = 1
                  /\ models[m].frontend_api_name = "ensemble"
                        => selector.values[1] = ValueOfModel(models[m])
                  /\ "labels" \in DOMAIN selector =>
                        \A i \in 1..Len(selector.values) :
                            selector.values[i] = ValueOfModel(models[m])
                                => selector.labels[i] = models[m].form_label

\* the label of a variable in a selector: its words capitalised, with spaces
LabelOf(variable) ==
    CASE variable = <<"nitrogen", "dioxide">> -> <<"Nitrogen", " ", "Dioxide">>
      [] variable = <<"particulate", "matter", "2p5um">>
             -> <<"Particulate", " ", "Matter", " ", "2P5Um">>
      [] variable = <<"nitrogen", "dioxide", "raw">>
             -> <<"Nitrogen", " ", "Dioxide", " ", "Raw">>

WrittenProduct == fs[Last(writes).path][1]

\* C25: the height selector is optional: for a package whose levels are
\* 'surface' or ['surface'] the product's variables list has no height entry,
\* and every element of the variables list of a generated product is a
\* selector record with a name and values, never a null element.
C25_NoNullSelector ==
    pc = "product_written" =>
        /\ \A i \in 1..Len(WrittenProduct.variables) :
              /\ "name" \in DOMAIN WrittenProduct.variables[i]
              /\ "values" \in DOMAIN WrittenProduct.variables[i]
        /\ document.package_data.levels \in {[str |-> "surface"], [list |-> <<"surface">>]}
              => \A i \in 1..Len(WrittenProduct.variables) :
                    WrittenProduct.variables[i].name # "level"

\* the parent properties of the package apply_defaults was called with
ParentOf(package) == [key \in DOMAIN package \ {"products"} |-> package[key]]

VariablesNamed(name, Compose(_, _)) ==
    {configs.var_config.variable[k].frontend_api_name :
        k \in {j \in 1..Len(configs.var_config.variable) :
                 Compose(ShortName(configs.var_config.variable[j].backend_api_name), TYPE) = name}}

\* C27: every layer file process_package writes is built from a variable its
\* file name is derived from: its description, its title and the presence of
\* the aqi style are those of that variable's own frontend name.
C27_LayerBuiltFromOwnVariable ==
    PhasesOver =>
        \A i \in 1..Len(required_layers) :
            LET layer == fs[FileOf(LAYERDIR, required_layers[i].name)][1]
                short_name == ShortName(required_layers[i].backend)
            IN  \E own \in VariablesNamed(required_layers[i].name, TrackedLayerName) :
                    /\ layer.description = <<"European ">> \o LongName(own)
                                               \o <<" ground- and upper-level forecast">>
                    /\ layer.title = <<"Ground- and upper-level ">> \o LongName(own)
                                         \o <<" (provided by CAMS)">>
                    /\ (<<"sh_">> \o short_name \o <<"_", "aqi", "_surface_concentration">>
                            \in Range(layer.styles))
                           <=> own \in IndexPollutants

\* C28: every style file process_package writes carries the contour levels
\* and, there being no common list, the colours configured for a variable
\* its file name is derived from.
C28_StyleCarriesOwnLevels ==
    PhasesOver =>
        \A i \in 1..Len(required_styles) :
            LET contour == fs[FileOf(STYLEDIR, required_styles[i].name)][1].data.contour
            IN  \E own \in VariablesNamed(required_styles[i].name, TrackedStyleName) :
                    LET levels == LevelsOf(configs.style_config, TYPE, own)
                    IN  /\ contour.contour_level_list =
                              JoinWords([k \in 1..Len(levels) |-> ToString(levels[k])], "/")
                        /\ contour.contour_shade_min_level = levels[1]
                        /\ contour.contour_shade_colour_list =
                              JoinWords(ColoursOf(configs.style_config, TYPE, own), "/")

\* ------------------------------------------------------------------------
\* main: a load that fails
\* ------------------------------------------------------------------------
\* the documents main loads, in the order of lines 170-185
Loads == <<"package_config", "var_config", "style_config",
           "package", "product", "layer", "style">>

\* the output directories cleared ahead of the loads
FilesClearedAtLoad(files) == ClearDirectories(files, OutputDirs)

\* the files as lines 169-185 leave them: load_config and load_template read
\* their documents and write nothing, and rmtree comes after them
FilesAtLoad(files) == files

\* main, lines 169-185, where load number k raises: the dictionary being
\* built is never bound, and the exception ends the process
LoadFails ==
    /\ pc = "load"
    /\ \E k \in 1..Len(Loads) :
          /\ configs' = IF k <= 3 THEN configs
                        ELSE [package_config |-> PackageConfig(document),
                              var_config |-> Rekey(VarConfigDocument),
                              style_config |-> StyleConfigDocument]
          /\ error' = [raised |-> TRUE, package |-> 0, writes |-> Len(writes)]
    /\ fs' = FilesAtLoad(fs)
    /\ pc' = UncaughtError(pc)
    /\ UNCHANGED <<document, templates, before, run, pi, locals, package_summaries,
                   writes, others>>

NextLoad ==
    \/ Load
    \/ LoadFails
    \/ Clean

SpecLoad == Init /\ [][NextLoad]_vars

\* C29: where a load of a configuration or of a template fails in main, nothing
\* below the output directories has been deleted or written: the files are
\* those the previous run left.
C29_FailedLoadLeavesFiles ==
    (pc = "aborted" /\ error.raised /\ error.package = 0) =>
        /\ fs = before
        /\ writes = <<>>

\* a load has failed with files of an earlier run in the output directories
C29_Witness ==
    /\ pc = "aborted"
    /\ error.raised
    /\ before = StaleFiles
    /\ \E q \in DOMAIN before : InDirs(q, OutputDirs)

\* C30: in process_package the errors 'No variable data found for layer' and
\* 'No variable data found for style' cannot be raised: every backend
\* identifier stored in required_layers and required_styles was read from a
\* record of the registry, so the lookups of lines 144 and 156 find a record.
C30_StoredBackendsRegistered ==
    pc \in {"groups", "layers", "styles"} =>
        /\ \A i \in 1..Len(required_layers) :
              HasBackend(configs.var_config, required_layers[i].backend)
        /\ \A i \in 1..Len(required_styles) :
              HasBackend(configs.var_config, required_styles[i].backend)

\* both loops have looked up and built from two recorded names
C30_Witness ==
    /\ PhasesOver
    /\ Len(required_layers) >= 2
    /\ Len(required_styles) >= 2
    /\ li > Len(required_layers)
    /\ Cardinality(Range(WritesOf(pi, LAYERDIR))) >= 2
    /\ Cardinality(Range(WritesOf(pi, STYLEDIR))) >= 2

====
